---- MODULE Spec2Model ----
(***************************************************************************)
(* Book Management microservice (src/app.py): the Book table, the          *)
(* validator validate_book_data and the five request handlers              *)
(* BookList.get/post and BookResource.get/put/delete.                      *)
(*                                                                         *)
(* Every handler is split at its database statements: a query or a commit  *)
(* is one atomic step of the store, and the Python code between two        *)
(* statements runs in the step of the statement that follows it.           *)
(***************************************************************************)
EXTENDS Integers, Sequences, FiniteSets, TLC

VARIABLES
    store,      \* the rows of table book
    nextId,     \* the next value of the primary-key sequence of book.id
    now,        \* the clock read by datetime.utcnow at an INSERT
    active,     \* the clients that send requests
    pc,         \* per client: where its current request stands
    op,         \* per client: the handler of its current or last request
    data,       \* per client: request.get_json() of that request
    book_id,    \* per client: the <int:book_id> of that request
    book,       \* per client: the Book instance loaded by Book.query.get
    resp,       \* per client: the (body, status) its last request returned
    vdata,      \* validator run: the payload
    vpartial,   \* validator run: the partial flag
    vresult     \* validator run: what validate_book_data returned

svars == <<store, nextId, now, active, pc, op, data, book_id, book, resp>>
vvars == <<vdata, vpartial, vresult>>
vars == <<store, nextId, now, active, pc, op, data, book_id, book, resp,
          vdata, vpartial, vresult>>

----------------------------------------------------------------------------
(* Bounds of the model *)

\* datetime.now().year, scaled down
CurrentYear == 1
\* how many ids the sequence of book.id hands out
MaxId == 2
Procs == {1, 2}

----------------------------------------------------------------------------
(* JSON values. A string is the sequence of its characters. *)

Absent == [k |-> "absent", s |-> <<>>, n |-> 0]   \* the key is not in the object
Null == [k |-> "null", s |-> <<>>, n |-> 0]       \* the key maps to null
Str(s) == [k |-> "str", s |-> s, n |-> 0]
Num(n) == [k |-> "int", s |-> <<>>, n |-> n]

\* 'key' in data
In(v) == v.k # "absent"

\* data.get('key') is None
IsNone(v) == v.k \in {"absent", "null"}

\* not data.get('key'): None, the empty string and 0 are falsy
Falsy(v) ==
    \/ IsNone(v)
    \/ v.k = "str" /\ v.s = <<>>
    \/ v.k = "int" /\ v.n = 0

RECURSIVE LStrip(_)
LStrip(s) == IF s # <<>> /\ Head(s) = " " THEN LStrip(Tail(s)) ELSE s

RECURSIVE RStrip(_)
RStrip(s) ==
    IF s # <<>> /\ s[Len(s)] = " " THEN RStrip(SubSeq(s, 1, Len(s) - 1)) ELSE s

\* str.strip()
Strip(s) == LStrip(RStrip(s))

Digits == <<"0", "1", "2", "3", "4", "5", "6", "7", "8", "9">>

IsDigit(c) == \E i \in 1..10 : Digits[i] = c

DigitVal(c) == (CHOOSE i \in 1..10 : Digits[i] = c) - 1

RECURSIVE DigitsVal(_)
DigitsVal(s) ==
    IF s = <<>> THEN 0
    ELSE 10 * DigitsVal(SubSeq(s, 1, Len(s) - 1)) + DigitVal(s[Len(s)])

AllDigits(s) == s # <<>> /\ \A i \in 1..Len(s) : IsDigit(s[i])

\* int(x) of a str or an int: [ok |-> FALSE] stands for ValueError
PyInt(v) ==
    IF v.k = "int" THEN [ok |-> TRUE, n |-> v.n]
    ELSE LET t == Strip(v.s)
             signed == t # <<>> /\ Head(t) \in {"-", "+"}
             d == IF signed THEN Tail(t) ELSE t
         IN  IF v.k = "str" /\ AllDigits(d)
             THEN [ok |-> TRUE,
                   n |-> IF signed /\ Head(t) = "-" THEN 0 - DigitsVal(d)
                         ELSE DigitsVal(d)]
             ELSE [ok |-> FALSE, n |-> 0]

----------------------------------------------------------------------------
(* validate_book_data *)

\* what a run of Python code gives: a value, or an exception
Returned(e) == [raised |-> FALSE, errors |-> e]
Raised == [raised |-> TRUE, errors |-> <<>>]

RangeError == "Year must be between 0 and " \o ToString(CurrentYear)

\* lines 87-89 and 91-93: the same check on title and on author.
\* A truthy value that is no string has no strip(): AttributeError.
RequiredText(v, partial, msg) ==
    IF ~partial \/ In(v)
    THEN IF Falsy(v) THEN Returned(<<msg>>)
         ELSE IF v.k # "str" THEN Raised
         ELSE IF Len(Strip(v.s)) = 0 THEN Returned(<<msg>>)
         ELSE Returned(<<>>)
    ELSE Returned(<<>>)

\* the range check with its upper end left out
YearErrorsShort(v, partial) ==
    IF ~partial \/ In(v)
    THEN IF ~IsNone(v)
         THEN LET year == PyInt(v)
              IN  IF ~year.ok THEN <<"Year must be a valid integer">>
                  ELSE IF year.n < 0 \/ year.n >= CurrentYear
                  THEN <<"Year must be between 0 and " \o ToString(CurrentYear)>>
                  ELSE <<>>
         ELSE IF ~partial THEN <<"Year is required">>
         ELSE <<>>
    ELSE <<>>

\* lines 95-104
YearErrors(v, partial) ==
    IF ~partial \/ In(v)
    THEN IF ~IsNone(v)
         THEN LET year == PyInt(v)
              IN  IF ~year.ok THEN <<"Year must be a valid integer">>
                  ELSE IF year.n < 0 \/ year.n > CurrentYear THEN <<RangeError>>
                  ELSE <<>>
         ELSE IF ~partial THEN <<"Year is required">>
         ELSE <<>>
    ELSE <<>>

\* lines 106-108
IsbnErrors(v, partial) ==
    IF ~partial \/ In(v)
    THEN IF Falsy(v) /\ ~partial THEN <<"ISBN is required">> ELSE <<>>
    ELSE <<>>

validate_book_data(d, partial) ==
    LET t == RequiredText(d.title, partial, "Title is required")
        a == RequiredText(d.author, partial, "Author is required")
    IN  IF t.raised \/ a.raised THEN Raised
        ELSE Returned(t.errors \o a.errors \o YearErrors(d.year, partial)
                        \o IsbnErrors(d.isbn, partial))

----------------------------------------------------------------------------
(* Request bodies *)

\* request.get_json(): JSON null, or an object. extra says that the object
\* holds keys other than title, author, year and isbn.
Obj(t, a, y, i) ==
    [isnull |-> FALSE, extra |-> FALSE, title |-> t, author |-> a, year |-> y,
     isbn |-> i]

NoJson == [Obj(Absent, Absent, Absent, Absent) EXCEPT !.isnull = TRUE]
Empty == Obj(Absent, Absent, Absent, Absent)
OtherKeys == [Empty EXCEPT !.extra = TRUE]

\* not data: None and the empty dict are falsy
NotData(d) ==
    \/ d.isnull
    \/ ~d.extra /\ ~In(d.title) /\ ~In(d.author) /\ ~In(d.year) /\ ~In(d.isbn)

----------------------------------------------------------------------------
(* Table book and its rows *)

\* year = db.Column(db.Integer): the column holds the integer the value reads as
ColInteger(v) == PyInt(v).n

\* Book(...) with author=data['title']
BookTitleTwice(id, d, t) ==
    [id |-> id, title |-> d.title.s, author |-> d.title.s,
     year |-> PyInt(d.year).n, isbn |-> d.isbn.s, created_at |-> t]

\* Book(title=..., author=..., year=..., isbn=...) once inserted
Book(id, d, t) ==
    [id |-> id, title |-> d.title.s, author |-> d.author.s,
     year |-> ColInteger(d.year), isbn |-> d.isbn.s, created_at |-> t]

\* datetime.isoformat()
isoformat(t) == [iso |-> t]

to_dict(b) ==
    [id |-> b.id, title |-> b.title, author |-> b.author, year |-> b.year,
     isbn |-> b.isbn, created_at |-> isoformat(b.created_at)]

\* Book.query.get(id): the rows with that primary key, none or one
query_get(id) == {b \in store : b.id = id}

\* Book.query.filter_by(isbn=...): the rows with that isbn
filter_by_isbn(i) == {b \in store : b.isbn = i.s}

\* the filter without Book.id != book_id
filter_isbn_any(i, id) == {b \in store : b.isbn = i.s}

\* Book.query.filter(Book.isbn == ..., Book.id != book_id)
filter_isbn_other(i, id) == {b \in store : b.isbn = i.s /\ b.id # id}

\* isbn without unique=True
UniqueOkOff(b) == TRUE

\* unique=True on isbn: may row b be written beside the other rows?
UniqueOk(b) == \A o \in store : o.id # b.id => o.isbn # b.isbn

\* the orders in which a query without ORDER BY may return the rows s
Orders(s) ==
    {q \in [1..Cardinality(s) -> s] : \A i, j \in 1..Cardinality(s) :
        i # j => q[i] # q[j]}

\* Book.query.all() on rows s. The query has no ORDER BY: the order is the
\* store's choice, one and the same as long as the rows are the same.
query_all(s) == CHOOSE q \in Orders(s) : TRUE

----------------------------------------------------------------------------
(* Responses: (body, status) *)

NoBook == <<>>

Response(status, error, message, errors, bk, books) ==
    [status |-> status, error |-> error, message |-> message,
     errors |-> errors, book |-> bk, books |-> books, total |-> Len(books)]

NoResp == Response(0, "", "", <<>>, NoBook, <<>>)
Error(status, msg) == Response(status, msg, "", <<>>, NoBook, <<>>)
Errors(e) == Response(400, "", "", e, NoBook, <<>>)
Message(status, msg, bk) == Response(status, "", msg, <<>>, bk, <<>>)
InternalError == Error(500, "Internal server error")
NoJsonData == Error(400, "No JSON data provided")
NotFound == Error(404, "Book not found")

----------------------------------------------------------------------------
(* The requests the clients send *)

Texts == {[title |-> <<"A">>, author |-> <<"X">>],
          [title |-> <<"B">>, author |-> <<"Y">>]}
Isbns == {<<"i">>, <<"j">>}
GoodYears == {Num(y) : y \in 0..CurrentYear} \cup {Str(<<"1">>)}

\* values that validate_book_data turns down, or that make it raise
BadTexts == {Absent, Null, Str(<<>>), Str(<<" ">>), Num(0), Num(7)}
BadYears == {Absent, Null, Num(0 - 1), Num(CurrentYear + 1),
             Str(<<"a", "b", "c">>), Str(<<>>)}
BadIsbns == {Absent, Null, Str(<<>>)}

Base == Obj(Str(<<"A">>), Str(<<"X">>), Num(0), Str(<<"i">>))

\* every text with every isbn, and Base with every good year
GoodPayloads ==
    {Obj(Str(t.title), Str(t.author), Num(0), Str(i)) : t \in Texts, i \in Isbns}
        \cup {[Base EXCEPT !.year = y] : y \in GoodYears}

\* Base with any of its keys left out
MissingKeys ==
    {Obj(t, a, y, i) : t \in {Base.title, Absent}, a \in {Base.author, Absent},
                       y \in {Base.year, Absent}, i \in {Base.isbn, Absent}}

\* Base with one bad value
OneBad ==
    {[Base EXCEPT !.title = v] : v \in BadTexts}
        \cup {[Base EXCEPT !.author = v] : v \in BadTexts}
        \cup {[Base EXCEPT !.year = v] : v \in BadYears}
        \cup {[Base EXCEPT !.isbn = v] : v \in BadIsbns}

\* one client sends every kind of body; two clients that race send few
Payloads ==
    IF Cardinality(active) = 1
    THEN GoodPayloads \cup MissingKeys \cup OneBad \cup {NoJson, OtherKeys}
    ELSE {Base, Obj(Str(<<"B">>), Str(<<"Y">>), Num(CurrentYear), Str(<<"i">>)),
          Obj(Str(<<"A">>), Str(<<"X">>), Num(0), Str(<<"j">>)),
          [Base EXCEPT !.title = Absent]}

\* the ids a client asks for: every id handed out so far and the next one
Ids == 1..nextId

----------------------------------------------------------------------------
(* The handlers. ok, at a commit, says whether the store carries it out: a
   store that fails makes the commit raise. *)

\* client p is between two requests
Ready(p) == p \in active /\ pc[p] \in {"idle", "done"}

\* the request of p ends with response r: the session goes away
Return(p, r) ==
    /\ pc' = [pc EXCEPT ![p] = "done"]
    /\ resp' = [resp EXCEPT ![p] = r]
    /\ book' = [book EXCEPT ![p] = NoBook]

\* the request of p goes on at label l
Goto(p, l, b) ==
    /\ pc' = [pc EXCEPT ![p] = l]
    /\ resp' = [resp EXCEPT ![p] = NoResp]
    /\ book' = [book EXCEPT ![p] = b]

\* a new request of p arrives at handler h
Arrive(p, h, id, d) ==
    /\ Ready(p)
    /\ op' = [op EXCEPT ![p] = h]
    /\ book_id' = [book_id EXCEPT ![p] = id]
    /\ data' = [data EXCEPT ![p] = d]

Same == UNCHANGED <<op, book_id, data>>
NoWrite == UNCHANGED <<store, nextId>>
Frame == UNCHANGED <<now, active, vdata, vpartial, vresult>>

\* BookList.get with the query of the health check, limit(1), in place
\* of all()
BookList_getLimit(p) ==
    /\ Arrive(p, "list", 0, NoJson)
    /\ LET books == query_all(store)
           n == IF store = {} THEN 0 ELSE 1
       IN  Return(p, Response(200, "", "", <<>>, NoBook,
                              [i \in 1..n |-> to_dict(books[i])]))
    /\ NoWrite /\ Frame

\* BookList.get, lines 126-137
BookList_get(p) ==
    /\ Arrive(p, "list", 0, NoJson)
    /\ LET books == query_all(store)
       IN  Return(p, Response(200, "", "", <<>>, NoBook,
                              [i \in 1..Len(books) |-> to_dict(books[i])]))
    /\ NoWrite /\ Frame

\* BookList.post without its ISBN pre-check
BookList_postNoCheck(p, d) ==
    /\ Arrive(p, "post", 0, d)
    /\ IF NotData(d) THEN Return(p, NoJsonData)
       ELSE LET errors == validate_book_data(d, FALSE)
            IN  IF errors.raised THEN Return(p, InternalError)
                ELSE IF errors.errors # <<>> THEN Return(p, Errors(errors.errors))
                ELSE Goto(p, "post_commit", NoBook)
    /\ NoWrite /\ Frame

\* BookList.post, lines 148-161: up to the ISBN pre-check
BookList_post(p, d) ==
    /\ Arrive(p, "post", 0, d)
    /\ IF NotData(d) THEN Return(p, NoJsonData)
       ELSE LET errors == validate_book_data(d, FALSE)
            IN  IF errors.raised THEN Return(p, InternalError)
                ELSE IF errors.errors # <<>> THEN Return(p, Errors(errors.errors))
                ELSE IF filter_by_isbn(d.isbn) # {}
                THEN Return(p, Error(409, "Book with this ISBN already exists"))
                ELSE Goto(p, "post_commit", NoBook)
    /\ NoWrite /\ Frame

\* BookList.post on a store that numbers a new row one past the row count
BookList_post_commitCount(p, ok) ==
    /\ pc[p] = "post_commit"
    /\ LET b == Book(Cardinality(store) + 1, data[p], now)
       IN  IF ok /\ UniqueOk(b)
           THEN /\ nextId <= MaxId
                /\ store' = store \cup {b}
                /\ nextId' = nextId + 1
                /\ now' = now + 1
                /\ Return(p, Message(201, "Book created successfully",
                                     <<to_dict(b)>>))
           ELSE /\ NoWrite
                /\ now' = now
                /\ Return(p, InternalError)
    /\ Same /\ UNCHANGED <<active, vdata, vpartial, vresult>>

\* BookList.post, lines 163-182: the INSERT and its commit. The store assigns
\* id from its sequence and created_at from the clock, which no two INSERTs
\* read at the same instant.
BookList_post_commit(p, ok) ==
    /\ pc[p] = "post_commit"
    /\ LET b == Book(nextId, data[p], now)
       IN  IF ok /\ UniqueOk(b)
           THEN /\ nextId <= MaxId
                /\ store' = store \cup {b}
                /\ nextId' = nextId + 1
                /\ now' = now + 1
                /\ Return(p, Message(201, "Book created successfully",
                                     <<to_dict(b)>>))
           ELSE /\ NoWrite
                /\ now' = now
                /\ Return(p, InternalError)
    /\ Same /\ UNCHANGED <<active, vdata, vpartial, vresult>>

\* BookResource.get, lines 192-204
BookResource_get(p, id) ==
    /\ Arrive(p, "get", id, NoJson)
    /\ IF query_get(id) = {} THEN Return(p, NotFound)
       ELSE \E b \in query_get(id) :
                Return(p, Response(200, "", "", <<>>, <<to_dict(b)>>, <<>>))
    /\ NoWrite /\ Frame

\* BookResource.put without lines 226-229: the payload is not validated
BookResource_putNoValidate(p, id, d) ==
    /\ Arrive(p, "put", id, d)
    /\ IF NotData(d) THEN Return(p, NoJsonData)
       ELSE IF query_get(id) = {} THEN Return(p, NotFound)
       ELSE \E b \in query_get(id) : Goto(p, "put_check", <<b>>)
    /\ NoWrite /\ Frame

\* BookResource.put, lines 215-229: the lookup, then the validation
BookResource_put(p, id, d) ==
    /\ Arrive(p, "put", id, d)
    /\ IF NotData(d) THEN Return(p, NoJsonData)
       ELSE IF query_get(id) = {} THEN Return(p, NotFound)
       ELSE LET errors == validate_book_data(d, FALSE)
            IN  IF errors.raised THEN Return(p, InternalError)
                ELSE IF errors.errors # <<>> THEN Return(p, Errors(errors.errors))
                ELSE \E b \in query_get(id) : Goto(p, "put_check", <<b>>)
    /\ NoWrite /\ Frame

\* BookResource.put, lines 231-237: the ISBN check against the other rows
BookResource_put_check(p) ==
    /\ pc[p] = "put_check"
    /\ IF filter_isbn_other(data[p].isbn, book_id[p]) # {}
       THEN Return(p, Error(409, "Another book with this ISBN already exists"))
       ELSE Goto(p, "put_commit", book[p])
    /\ Same /\ NoWrite /\ Frame

\* the assignments without line 240: the author is never replaced
AssignedNoAuthor(b, d) ==
    [b EXCEPT !.title = d.title.s, !.year = ColInteger(d.year),
              !.isbn = d.isbn.s]

\* lines 239-242: the loaded instance with the four attributes assigned
Assigned(b, d) ==
    [b EXCEPT !.title = d.title.s, !.author = d.author.s,
              !.year = ColInteger(d.year), !.isbn = d.isbn.s]

\* The attributes whose assigned value differs from the loaded one: the
\* flush writes these columns and no others.
Dirty(b, d) ==
    {c \in {"title", "author", "year", "isbn"} :
        \/ c = "title" /\ d.title.s # b.title
        \/ c = "author" /\ d.author.s # b.author
        \/ c = "year" /\ d.year # Num(b.year)
        \/ c = "isbn" /\ d.isbn.s # b.isbn}

\* UPDATE book SET <dirty columns> WHERE id = ...: row r afterwards
Updated(r, b, d) ==
    LET a == Assigned(b, d)
        w == Dirty(b, d)
    IN  [r EXCEPT !.title = IF "title" \in w THEN a.title ELSE @,
                  !.author = IF "author" \in w THEN a.author ELSE @,
                  !.year = IF "year" \in w THEN a.year ELSE @,
                  !.isbn = IF "isbn" \in w THEN a.isbn ELSE @]

\* BookResource.put whose failed commit is not rolled back: the title stays
BookResource_put_commitNoRollback(p, ok) ==
    /\ pc[p] = "put_commit"
    /\ LET b == book[p][1]
           cur == query_get(book_id[p])
       IN  IF cur = {} THEN NoWrite /\ Return(p, InternalError)
           ELSE \E r \in cur :
                LET u == Updated(r, b, data[p])
                IN  IF ok /\ UniqueOk(u)
                    THEN /\ store' = (store \ {r}) \cup {u}
                         /\ nextId' = nextId
                         /\ Return(p, Message(200, "Book updated successfully",
                                              <<to_dict(u)>>))
                    ELSE /\ store' = (store \ {r}) \cup {[r EXCEPT !.title = u.title]}
                         /\ nextId' = nextId
                         /\ Return(p, InternalError)
    /\ Same /\ Frame

\* BookResource.put that saves the loaded instance as a whole (a merge): a
\* row that is gone is written again
BookResource_put_commitMerge(p, ok) ==
    /\ pc[p] = "put_commit"
    /\ LET b == book[p][1]
           u == Assigned(b, data[p])
       IN  IF ok /\ UniqueOk(u)
           THEN /\ store' = (store \ query_get(book_id[p])) \cup {u}
                /\ nextId' = nextId
                /\ Return(p, Message(200, "Book updated successfully",
                                     <<to_dict(u)>>))
           ELSE NoWrite /\ Return(p, InternalError)
    /\ Same /\ Frame

\* BookResource.put, lines 239-255: the UPDATE, its commit, and to_dict of
\* the instance, which reads the row again after the commit. An UPDATE
\* that matches no row, like a to_dict of a row that is gone, raises.
BookResource_put_commit(p, ok) ==
    /\ pc[p] = "put_commit"
    /\ LET b == book[p][1]
           cur == query_get(book_id[p])
       IN  IF ~ok \/ cur = {} THEN NoWrite /\ Return(p, InternalError)
           ELSE \E r \in cur :
                LET u == Updated(r, b, data[p])
                IN  IF UniqueOk(u)
                    THEN /\ store' = (store \ {r}) \cup {u}
                         /\ nextId' = nextId
                         /\ Return(p, Message(200, "Book updated successfully",
                                              <<to_dict(u)>>))
                    ELSE NoWrite /\ Return(p, InternalError)
    /\ Same /\ Frame

\* BookResource.delete, lines 263-266: the lookup
BookResource_delete(p, id) ==
    /\ Arrive(p, "delete", id, NoJson)
    /\ IF query_get(id) = {} THEN Return(p, NotFound)
       ELSE \E b \in query_get(id) : Goto(p, "delete_commit", <<b>>)
    /\ NoWrite /\ Frame

\* BookResource.delete that answers without db.session.delete(book)
BookResource_delete_commitKeeps(p, ok) ==
    /\ pc[p] = "delete_commit"
    /\ NoWrite
    /\ IF ok THEN Return(p, Message(200, "Book deleted successfully", NoBook))
       ELSE Return(p, InternalError)
    /\ Same /\ Frame

\* BookResource.delete, lines 268-277: the DELETE and its commit. A DELETE
\* that matches no row is no error.
BookResource_delete_commit(p, ok) ==
    /\ pc[p] = "delete_commit"
    /\ IF ok
       THEN /\ store' = store \ query_get(book_id[p])
            /\ nextId' = nextId
            /\ Return(p, Message(200, "Book deleted successfully", NoBook))
       ELSE NoWrite /\ Return(p, InternalError)
    /\ Same /\ Frame

----------------------------------------------------------------------------
(* The service: one client, every kind of request *)

\* vresult before validate_book_data has run
NoRun == <<>>

InitClients(a) ==
    /\ store = {}
    /\ nextId = 1
    /\ now = 0
    /\ active = a
    /\ pc = [p \in Procs |-> "idle"]
    /\ op = [p \in Procs |-> "none"]
    /\ data = [p \in Procs |-> NoJson]
    /\ book_id = [p \in Procs |-> 0]
    /\ book = [p \in Procs |-> NoBook]
    /\ resp = [p \in Procs |-> NoResp]
    /\ vdata = NoJson
    /\ vpartial = FALSE
    /\ vresult = NoRun

Init == InitClients({1})

Next ==
    \/ \E p \in Procs : BookList_get(p)
    \/ \E p \in Procs, d \in Payloads : BookList_post(p, d)
    \/ \E p \in Procs, ok \in BOOLEAN : BookList_post_commit(p, ok)
    \/ \E p \in Procs, id \in Ids : BookResource_get(p, id)
    \/ \E p \in Procs, id \in Ids, d \in Payloads : BookResource_put(p, id, d)
    \/ \E p \in Procs : BookResource_put_check(p)
    \/ \E p \in Procs, ok \in BOOLEAN : BookResource_put_commit(p, ok)
    \/ \E p \in Procs, id \in Ids : BookResource_delete(p, id)
    \/ \E p \in Procs, ok \in BOOLEAN : BookResource_delete_commit(p, ok)

Spec == Init /\ [][Next]_vars

(* The service: two clients whose requests interleave *)

InitRace == InitClients({1, 2})

SpecRace == InitRace /\ [][Next]_vars

----------------------------------------------------------------------------
(* The validator alone: one call of validate_book_data on any payload *)

VTexts == {Absent, Null, Str(<<>>), Str(<<" ">>), Str(<<"A">>),
           Str(<<" ", "A", " ">>), Num(0), Num(7)}
VYears == {Absent, Null, Str(<<>>), Str(<<"a", "b", "c">>), Str(<<"1">>),
           Str(<<"-", "1">>), Str(<<" ", "1", " ">>), Str(<<"1", "0">>)}
              \cup {Num(y) : y \in (0 - 1)..(CurrentYear + 1)}
VIsbns == {Absent, Null, Str(<<>>), Str(<<"i">>), Num(0), Num(7)}

VPayloads ==
    {Obj(t, a, y, i) : t \in VTexts, a \in VTexts, y \in VYears, i \in VIsbns}
        \cup {OtherKeys}

InitV ==
    /\ store = {}
    /\ nextId = 1
    /\ now = 0
    /\ active = {}
    /\ pc = [p \in Procs |-> "idle"]
    /\ op = [p \in Procs |-> "none"]
    /\ data = [p \in Procs |-> NoJson]
    /\ book_id = [p \in Procs |-> 0]
    /\ book = [p \in Procs |-> NoBook]
    /\ resp = [p \in Procs |-> NoResp]
    /\ vdata \in VPayloads
    /\ vpartial \in BOOLEAN
    /\ vresult = NoRun

Validate ==
    /\ vresult = NoRun
    /\ vresult' = <<validate_book_data(vdata, vpartial)>>
    /\ UNCHANGED <<store, nextId, now, active, pc, op, data, book_id, book,
                   resp, vdata, vpartial>>

NextV == Validate

SpecV == InitV /\ [][NextV]_vars

----------------------------------------------------------------------------
(* Properties *)

\* a non-blank string
IsText(v) == v.k = "str" /\ \E j \in 1..Len(v.s) : v.s[j] # " "

\* this step is a step of client p
Moved(p) ==
    \/ pc'[p] # pc[p] \/ op'[p] # op[p] \/ data'[p] # data[p]
    \/ book_id'[p] # book_id[p] \/ book'[p] # book[p] \/ resp'[p] # resp[p]

\* in this step a request of client p arrives at handler h
Arrives(p, h) == Ready(p) /\ Moved(p) /\ op'[p] = h

\* the last request of client p was to handler h and has returned
Done(p, h) == pc[p] = "done" /\ op[p] = h

\* d passes the validation of a create or an update
IsValid(d) == ~NotData(d) /\ validate_book_data(d, FALSE) = Returned(<<>>)

Conflict(p) == resp[p].status = 409 /\ resp[p].error # ""

\* C1: whatever the interleaving of the steps of create, update and delete
\* requests, no two rows of the store have the same isbn.
C1_UniqueIsbn == \A a, b \in store : a.isbn = b.isbn => a = b

\* two creates with the same isbn have both passed the pre-check; one has
\* committed its row, the other has been turned down at its commit
C1_Witness ==
    \E p, q \in Procs :
        /\ Done(p, "post") /\ resp[p].status = 201
        /\ Done(q, "post") /\ resp[q].status = 500
        /\ data[p].isbn = data[q].isbn
        /\ \E b \in store : to_dict(b) = resp[p].book[1]

\* C2: a create or an update whose commit the store turns down because its
\* isbn has been taken since the pre-check is answered 409.
C2_LoserGetsConflict ==
    [][\A p \in Procs :
        /\ (/\ pc[p] = "post_commit"
            /\ \E b \in store : b.isbn = data[p].isbn.s
            /\ BookList_post_commit(p, TRUE))
                => resp'[p].status = 409
        /\ (/\ pc[p] = "put_commit"
            /\ \E r \in store : r.id = book_id[p]
                                    /\ ~UniqueOk(Updated(r, book[p][1], data[p]))
            /\ BookResource_put_commit(p, TRUE))
                => resp'[p].status = 409]_vars

\* C3: a create with a valid payload whose isbn is the isbn of a stored Book
\* returns 409 'Book with this ISBN already exists' and adds no Book.
C3_DuplicateIsbnConflict ==
    [][\A p \in Procs :
        (/\ Arrives(p, "post")
         /\ IsValid(data'[p])
         /\ \E b \in store : b.isbn = data'[p].isbn.s)
            => /\ resp'[p] = Error(409, "Book with this ISBN already exists")
               /\ pc'[p] = "done"
               /\ store' = store]_vars

C3_Witness ==
    \E p \in Procs :
        /\ Done(p, "post") /\ Conflict(p)
        /\ IsValid(data[p])
        /\ \E b \in store : b.isbn = data[p].isbn.s

\* the id of the request of p names a stored Book
Exists(p) == \E b \in store : b.id = book_id[p]
\* the isbn of the payload of p is the isbn of another stored Book
OthersIsbn(p) == \E b \in store : b.id # book_id[p] /\ b.isbn = data[p].isbn.s
\* the isbn of the payload of p is the isbn of the Book it updates
OwnIsbn(p) == \E b \in store : b.id = book_id[p] /\ b.isbn = data[p].isbn.s

\* C4: an update of a stored Book with a valid payload reaches the ISBN
\* check; there it returns 409 when the payload's isbn is the isbn of another
\* stored Book, and it goes on to its commit when the isbn is the Book's own;
\* that commit, unless the store fails, returns 200 with the payload's fields.
C4_UpdateIsbn ==
    [][\A p \in Procs :
        /\ (Arrives(p, "put") /\ IsValid(data'[p])
                /\ (\E b \in store : b.id = book_id'[p]))
            => pc'[p] = "put_check"
        /\ (pc[p] = "put_check" /\ Moved(p) /\ OthersIsbn(p))
            => /\ resp'[p] = Error(409, "Another book with this ISBN already exists")
               /\ pc'[p] = "done"
               /\ store' = store
        /\ (pc[p] = "put_check" /\ Moved(p) /\ OwnIsbn(p))
            => pc'[p] = "put_commit"
        /\ (pc[p] = "put_commit" /\ OwnIsbn(p) /\ BookResource_put_commit(p, TRUE))
            => /\ resp'[p].status = 200
               /\ \E b \in store' :
                    /\ b.id = book_id[p]
                    /\ resp'[p].book = <<to_dict(b)>>
                    /\ b.isbn = data[p].isbn.s
                    /\ b.title = data[p].title.s
                    /\ b.author = data[p].author.s]_vars

\* an update that keeps its Book's isbn has passed the ISBN check while
\* another Book is stored
C4_Witness ==
    \E p \in Procs :
        /\ pc[p] = "put_commit"
        /\ OwnIsbn(p)
        /\ \E b \in store : b.id # book_id[p]

\* what get(id) answers right after the create that assigned id: the Book
\* with the payload's title, author and isbn, and the id and created_at of
\* the create's answer
GetAfterCreate(p) ==
    /\ Done(p, "post") /\ resp[p].status = 201
    /\ Arrives(p, "get")
    /\ book_id'[p] = resp[p].book[1].id

SameAsCreated(p) ==
    /\ resp'[p].status = 200
    /\ Len(resp'[p].book) = 1
    /\ LET g == resp'[p].book[1]
       IN  /\ Str(g.title) = data[p].title
           /\ Str(g.author) = data[p].author
           /\ Str(g.isbn) = data[p].isbn
           /\ g.id = resp[p].book[1].id
           /\ g.created_at = resp[p].book[1].created_at

C6_DeletedIsGone ==
    [][\A p \in Procs :
        /\ (pc[p] = "delete_commit" /\ Moved(p) /\ resp'[p].status = 200)
            => \A b \in store' : b.id # book_id[p]
        /\ (Done(p, "delete") /\ resp[p].status = 200)
            => /\ (Arrives(p, "get") /\ book_id'[p] = book_id[p])
                    => resp'[p] = NotFound
               /\ (Arrives(p, "delete") /\ book_id'[p] = book_id[p])
                    => resp'[p] = NotFound /\ pc'[p] = "done"
               /\ Arrives(p, "list")
                    => \A i \in 1..Len(resp'[p].books) :
                            resp'[p].books[i].id # book_id[p]]_vars

\* get(id) has returned 404 for an id that a create had assigned, beside
\* another Book that is still stored
C6_Witness ==
    \E p \in Procs :
        /\ Done(p, "get") /\ resp[p] = NotFound
        /\ book_id[p] < nextId
        /\ store # {}

\* the 'is required' messages that a payload with keys missing must get
Missing(d) ==
    (IF In(d.title) THEN <<>> ELSE <<"Title is required">>)
        \o (IF In(d.author) THEN <<>> ELSE <<"Author is required">>)
        \o (IF In(d.isbn) THEN <<>> ELSE <<"ISBN is required">>)

IsRequiredMessage(m) ==
    m \in {"Title is required", "Author is required", "ISBN is required"}

\* C7: a create whose payload, an object, lacks title, author or isbn returns
\* 400 with an errors list that holds the message of each missing key, in the
\* order title, author, isbn.
C7_MissingKeysReported ==
    \A p \in Procs :
        (/\ Done(p, "post")
         /\ ~data[p].isnull
         /\ Missing(data[p]) # <<>>)
            => /\ resp[p].status = 400
               /\ SelectSeq(resp[p].errors, IsRequiredMessage) = Missing(data[p])

\* C8: a step of a request that changes the store is the last step of that
\* request and returns success (200 or 201): a request that ends in 400, 404,
\* 409 or 500 has changed no row.
C8_FailureLeavesStore ==
    [][store' # store
        => \E p \in Procs :
            /\ pc[p] # "done" /\ pc'[p] = "done"
            /\ resp'[p].status \in {200, 201}]_vars

\* an update has been turned down at its commit while Books are stored
C8_Witness ==
    \E p \in Procs :
        /\ Done(p, "put") /\ resp[p] = InternalError
        /\ store # {}

Validated == vresult # NoRun /\ ~vpartial /\ IsText(vdata.title)
                /\ IsText(vdata.author) /\ IsText(vdata.isbn)

\* validate_book_data has returned e for a full (partial=False) check of a
\* payload in which only year can be at fault
YearCase(e) == Validated /\ vresult = <<Returned(e)>>

\* C9: with partial=False and the other fields valid, the year alone decides
\* the result: -1 and CurrentYear + 1 give exactly the range error, a string
\* that is no numeral ("abc") gives exactly 'Year must be a valid integer',
\* an absent year gives exactly 'Year is required', and every integer from
\* 0 to CurrentYear, both ends included, gives no error.
C9_YearRules ==
    Validated =>
        /\ vdata.year \in {Num(0 - 1), Num(CurrentYear + 1)}
            => YearCase(<<"Year must be between 0 and " \o ToString(CurrentYear)>>)
        /\ vdata.year \in {Str(<<"a", "b", "c">>), Str(<<>>)}
            => YearCase(<<"Year must be a valid integer">>)
        /\ vdata.year = Absent => YearCase(<<"Year is required">>)
        /\ (vdata.year.k = "int" /\ vdata.year.n \in 0..CurrentYear)
            => YearCase(<<>>)

C9_Witness ==
    /\ YearCase(<<>>)
    /\ vdata.year = Num(CurrentYear)

ValidationFailed(p) == resp[p].status = 400 /\ resp[p].errors # <<>>

\* C10: an update of an id that is not stored returns 404 whatever object
\* the payload is; an update of a stored id with an invalid payload returns
\* 400 with its errors, also when the payload's isbn is another Book's; only
\* an update of a stored id with a valid payload returns 409; and a create
\* with an invalid payload returns 400 with its errors, not 409.
C10_OutcomeOrder ==
    \A p \in Procs :
        /\ (Done(p, "put") /\ ~data[p].isnull)
            => /\ ~Exists(p) => resp[p] = NotFound
               /\ (Exists(p) /\ ~IsValid(data[p])) => ValidationFailed(p)
               /\ Conflict(p) => Exists(p) /\ IsValid(data[p])
        /\ (Done(p, "post") /\ ~data[p].isnull /\ ~IsValid(data[p]))
            => ValidationFailed(p)

----------------------------------------------------------------------------
(* What a successful update changes *)

\* the commit of an update that answers 200
UpdateSucceeds(p) ==
    pc[p] = "put_commit" /\ Moved(p) /\ resp'[p].status = 200

\* the row r of the updated Book becomes u and nothing else changes
OnlyRowChanges(r, u) ==
    /\ u.id = r.id
    /\ u.created_at = r.created_at
    /\ store' = (store \ {r}) \cup {u}
    /\ Cardinality(store') = Cardinality(store)

----------------------------------------------------------------------------
(* Ids *)

\* the rows of store' whose id no row of store has
NewRows == {b \in store' : \A r \in store : r.id # b.id}

\* C12: the store hands out ids from a sequence that only moves forward, so
\* the id of a newly created Book is one that was never handed out before,
\* the ids of deleted Books included; and a Book, which its created_at tells
\* from every other, keeps its id through every step.
C12_IdsNeverReused ==
    [][/\ \A r \in store : r.id < nextId
       /\ nextId' >= nextId
       /\ \A b \in NewRows : b.id >= nextId /\ b.id < nextId'
       /\ \A r \in store, b \in store' :
              b.created_at = r.created_at => b.id = r.id]_vars

\* Book 1 was deleted and the create that followed was given id 2
C12_Witness ==
    \E p \in active :
        /\ Done(p, "post") /\ resp[p].status = 201
        /\ resp[p].book[1].id = 2
        /\ \A b \in store : b.id = 2

----------------------------------------------------------------------------
(* Stored Books are valid *)

\* the payload that carries the four fields of row b
AsPayload(b) == Obj(Str(b.title), Str(b.author), Num(b.year), Str(b.isbn))

----------------------------------------------------------------------------
(* The validator's list *)

\* message m is in the list e
Has(e, m) == \E j \in 1..Len(e) : e[j] = m

\* the field rules of the validator, one field at a time: the value is at
\* fault. A field that is absent is at fault in a full check only; a year
\* that is null counts as absent.
TitleAtFault == (~vpartial \/ In(vdata.title)) /\ ~IsText(vdata.title)
AuthorAtFault == (~vpartial \/ In(vdata.author)) /\ ~IsText(vdata.author)
YearAtFault ==
    IF IsNone(vdata.year) THEN ~vpartial
    ELSE ~PyInt(vdata.year).ok \/ PyInt(vdata.year).n < 0
            \/ PyInt(vdata.year).n > CurrentYear
IsbnAtFault == ~vpartial /\ Falsy(vdata.isbn)

YearMessages ==
    {"Year is required", "Year must be a valid integer", RangeError}

\* C14: for every payload validate_book_data returns a list, which is the
\* concatenation, in the order title, author, year, isbn, of at most one
\* error per field; a field contributes its error exactly when it is at
\* fault, whatever the other fields are, so the list is empty exactly when
\* no field is at fault.
C14_AllErrorsInOrder ==
    vresult # NoRun =>
        \E t \in {<<>>, <<"Title is required">>},
           a \in {<<>>, <<"Author is required">>},
           y \in {<<>>} \cup {<<m>> : m \in YearMessages},
           i \in {<<>>, <<"ISBN is required">>} :
            /\ vresult = <<Returned(t \o a \o y \o i)>>
            /\ (t # <<>>) <=> TitleAtFault
            /\ (a # <<>>) <=> AuthorAtFault
            /\ (y # <<>>) <=> YearAtFault
            /\ (i # <<>>) <=> IsbnAtFault

\* a title, or an author, whose strip() cannot be called
Unstrippable(v) == v.k # "str" /\ ~Falsy(v)

\* a string that is empty or holds spaces only
IsBlank(v) == v.k = "str" /\ ~IsText(v)

\* C15: with partial=True, a field that is absent contributes no error (the
\* empty payload gives the empty list), a title or author that is present
\* but empty or whitespace-only gives its 'is required' error, and a year
\* that is present (and not null) but no integer or out of [0, CurrentYear]
\* gives the integer error or the range error.
C15_PartialMode ==
    (vresult # NoRun /\ vpartial) =>
        LET e == vresult[1].errors
        IN  /\ ~In(vdata.title) => ~Has(e, "Title is required")
            /\ ~In(vdata.author) => ~Has(e, "Author is required")
            /\ ~In(vdata.year) => \A m \in YearMessages : ~Has(e, m)
            /\ ~In(vdata.isbn) => ~Has(e, "ISBN is required")
            /\ vdata = Empty => vresult = <<Returned(<<>>)>>
            /\ IsBlank(vdata.title) =>
                   ~vresult[1].raised /\ Has(e, "Title is required")
            /\ IsBlank(vdata.author) =>
                   ~vresult[1].raised /\ Has(e, "Author is required")
            /\ (~IsNone(vdata.year) /\ YearAtFault) =>
                   /\ ~vresult[1].raised
                   /\ Has(e, "Year must be a valid integer") \/ Has(e, RangeError)

----------------------------------------------------------------------------
(* Reads *)

\* in this step client p gets the answer of handler h
Answers(p, h) == Ready(p) /\ op'[p] = h /\ pc'[p] = "done"

----------------------------------------------------------------------------
(* An update that races with a delete *)

\* the update of client p has looked its Book up and the Book is gone
LostItsBook(p) == pc[p] \in {"put_check", "put_commit"} /\ ~Exists(p)

\* C17: when a delete of the same Book commits after the update's lookup
\* and before its commit, no later step of the update brings the Book back
\* or answers 200; and the id of a delete that answered 200 is absent from
\* the store from then on, so it is when both requests have finished.
C17_UpdateAfterDelete ==
    [][\A p \in active :
        /\ (LostItsBook(p) /\ Moved(p))
            => /\ \A b \in store' : b.id # book_id[p]
               /\ resp'[p].status # 200
        /\ (Done(p, "delete") /\ resp[p].status = 200)
            => \A b \in store : b.id # book_id[p]]_vars

\* the delete has answered 200 while the update of the same Book stands
\* between its lookup and its commit
C17_Witness ==
    \E p, q \in active :
        /\ pc[p] = "put_commit" /\ ~Exists(p)
        /\ Done(q, "delete") /\ resp[q].status = 200
        /\ book_id[q] = book_id[p]
        /\ store # {}

============================================================================
